---- MODULE Spec2Model ----
(***************************************************************************)
(* MetaTEDL: the meta-training loop of trainer/meta.py (MetaTrainer), the  *)
(* pretrain-checkpoint loading of MetaTrainer.__init__ and the OOD          *)
(* evaluation loop of OodDetection.py, as state machines.                  *)
(*                                                                         *)
(* Floating-point scalars are exact rationals [num, den] in lowest terms;  *)
(* den = 0 is the non-finite value (NaN/Inf), which every arithmetic       *)
(* operation propagates and every ordered comparison answers FALSE on.     *)
(***************************************************************************)
EXTENDS Integers, Sequences, FiniteSets, TLC

(***************************************************************************)
(* Bounds of the model (configuration values of a run).                    *)
(***************************************************************************)
\* args.max_epoch
MaxEpoch == 2
\* args.train_num_batch: episodes the train loader yields per epoch
NumTrain == 2
\* args.val_num_batch: episodes the val loader yields per epoch
NumVal == 2
\* args.task_num: paired tasks the two OOD loaders yield
TaskNum == 3

(***************************************************************************)
(* Program constants.                                                      *)
(***************************************************************************)
\* meta.py:206  if epoch % 20 == 0: self.save_model('epoch' + str(epoch))
SaveEvery == 20

(***************************************************************************)
(* Scalars.                                                                *)
(***************************************************************************)
RECURSIVE GCD(_, _)
GCD(a, b) == IF b = 0 THEN a ELSE GCD(b, a % b)

Abs(x) == IF x < 0 THEN -x ELSE x

NaN == [num |-> 0, den |-> 0]

\* the rational n/d in lowest terms with a positive denominator; d = 0 is NaN
Rat(n, d) ==
    IF d = 0 THEN NaN
    ELSE LET g == GCD(Abs(n), Abs(d))
             s == IF d < 0 THEN -1 ELSE 1
         IN  [num |-> s * (n \div g), den |-> s * (d \div g)]

IsNaN(x) == x.den = 0

RatAdd(x, y) ==
    IF IsNaN(x) \/ IsNaN(y) THEN NaN
    ELSE Rat(x.num * y.den + y.num * x.den, x.den * y.den)

RatMul(x, y) ==
    IF IsNaN(x) \/ IsNaN(y) THEN NaN
    ELSE Rat(x.num * y.num, x.den * y.den)

RatSub(x, y) ==
    IF IsNaN(x) \/ IsNaN(y) THEN NaN
    ELSE Rat(x.num * y.den - y.num * x.den, x.den * y.den)

\* x / y; a division by zero is non-finite
RatDiv(x, y) ==
    IF IsNaN(x) \/ IsNaN(y) THEN NaN
    ELSE Rat(x.num * y.den, x.den * y.num)

RatDivInt(x, k) == IF IsNaN(x) \/ k = 0 THEN NaN ELSE Rat(x.num, x.den * k)

\* x > y of two floats: FALSE as soon as one of them is NaN
RatGT(x, y) == ~IsNaN(x) /\ ~IsNaN(y) /\ x.num * y.den > y.num * x.den

(***************************************************************************)
(* utils.misc.Averager: "add" and "current mean".                          *)
(***************************************************************************)
Averager == [n |-> 0, v |-> Rat(0, 1)]

\* add(x): one more value, n of them with the sum v
AveragerAdd(a, x) == [n |-> a.n + 1, v |-> RatAdd(a.v, x)]

\* data(): the current mean, v / n
AveragerData(a) == RatDivInt(a.v, a.n)

(***************************************************************************)
(* What an episode's forward pass, loss and count_acc can yield: a loss    *)
(* that is finite (lower when the prediction is right) or non-finite, and  *)
(* an accuracy in [0, 1].                                                  *)
(***************************************************************************)
Outcomes ==
    {[loss |-> Rat(1, 1), acc |-> Rat(1, 1)], [loss |-> Rat(2, 1), acc |-> Rat(0, 1)],
     [loss |-> NaN, acc |-> Rat(0, 1)]}

VARIABLES
    epoch,                \* loop variable of "for epoch in range(1, max_epoch + 1)"
    pc,                   \* position in meta_train
    mode,                 \* self.model.training: "train" / "eval"
    task_id,              \* enumerate(tqdm_gen, 1) of the running episode loop
    params,               \* self.model's stored parameters: how many updates made them
    train_loss_averager, train_acc_averager,
    val_loss_averager, val_acc_averager,
    trlog,                \* the in-memory training log
    max_acc_pth,          \* file max_acc.pth: the parameters saved, or NoFile
    epoch_pths,           \* files epoch<N>.pth: epoch -> parameters saved
    trlog_file,           \* file trlog: the log saved, or NoFile
    last_epoch,           \* lr_scheduler.last_epoch: times the schedule was stepped
    hist                  \* history: what happened so far (not program state)

\* MetaTrainer.__init__, loading the pretrain checkpoint (meta.py:85-96)
VARIABLES
    load_pc,              \* position in the loading
    pretrained_dict,      \* torch.load(pre_train_path)['params']
    model_state,          \* the model's parameter mapping (its state_dict)
    model_dict,           \* self.model_dict
    meta_pretrained_dict,
    pre_pretrained_dict,
    load_error,           \* load_state_dict raised (missing or unexpected keys)
    orig_state            \* history: the model's mapping before the loading

\* the OOD evaluation loop (OodDetection.py:105-152)
VARIABLES
    ood_pc,               \* position in the loop
    ood_task_id,          \* enumerate(zip(dataloader, ood_dataloader), 1)
    auroc_Dents, auroc_MIs, auroc_precisions,
    ood_stats,            \* avg_/std_/ci95_ of the three series, as last computed
    printed,              \* the report lines printed so far
    roc_returned          \* history: what ROC_OOD returned, task by task

\* an episode of meta_train, with what its tensors hold and what the loss is given
VARIABLES
    ep

\* a paired task of the OOD loop, with what its vectors hold
VARIABLES
    ot

tvars == <<epoch, pc, mode, task_id, params, train_loss_averager,
           train_acc_averager, val_loss_averager, val_acc_averager, trlog,
           max_acc_pth, epoch_pths, trlog_file, last_epoch, hist>>

lvars == <<load_pc, pretrained_dict, model_state, model_dict, meta_pretrained_dict,
           pre_pretrained_dict, load_error, orig_state>>

ovars == <<ood_pc, ood_task_id, auroc_Dents, auroc_MIs, auroc_precisions, ood_stats,
           printed, roc_returned>>

evars == <<ep>>

qvars == <<ot>>

vars == <<tvars, lvars, ovars, evars, qvars>>

NoFile == [exists |-> FALSE]
Unbound == [unbound |-> TRUE]

args == [max_epoch |-> MaxEpoch, train_num_batch |-> NumTrain, val_num_batch |-> NumVal]

\* meta.py:108-109
NewTrlog ==
    [args |-> args, train_loss |-> <<>>, val_loss |-> <<>>, train_acc |-> <<>>,
     val_acc |-> <<>>, max_acc |-> Rat(0, 1), max_acc_epoch |-> 0]

NewHist ==
    [nonfinite   |-> FALSE,   \* a non-finite loss has been computed
     opt_steps   |-> 0,       \* optimizer.step() calls
     sums        |-> <<>>,    \* per epoch: episode counts and sums of loss and accuracy
     best_saves  |-> <<>>,    \* epochs whose pass wrote max_acc.pth
     decisions   |-> 0,       \* best-model decisions taken
     log_saves   |-> 0,       \* writes of the trlog file
     after_train |-> <<>>]    \* per epoch: params when its training pass ended

NoEpisodes ==
    [tn |-> 0, tl |-> Rat(0, 1), ta |-> Rat(0, 1),
     vn |-> 0, vl |-> Rat(0, 1), va |-> Rat(0, 1)]

EmptyDict == <<>>

\* no episode's tensors and no paired task's vectors are followed in this run
EpisodeIdle == ep = Unbound

OodVectorsIdle == ot = Unbound

\* the loading is not part of this run
LoadIdle ==
    /\ load_pc = "idle"
    /\ pretrained_dict = EmptyDict
    /\ model_state = EmptyDict
    /\ model_dict = EmptyDict
    /\ meta_pretrained_dict = EmptyDict
    /\ pre_pretrained_dict = EmptyDict
    /\ load_error = FALSE
    /\ orig_state = EmptyDict

\* the OOD evaluation is not part of this run
OodIdle ==
    /\ ood_pc = "idle"
    /\ ood_task_id = 0
    /\ auroc_Dents = <<>>
    /\ auroc_MIs = <<>>
    /\ auroc_precisions = <<>>
    /\ ood_stats = Unbound
    /\ printed = <<>>
    /\ roc_returned = <<>>

\* the state on entry to meta_train, with the loop about to start (or not, max_epoch = 0)
TrainerInit ==
    /\ epoch = 1
    /\ pc = IF 1 <= MaxEpoch THEN "epoch" ELSE "done"
    /\ mode = "train"
    /\ task_id = 0
    /\ params = 0
    /\ train_loss_averager = Unbound
    /\ train_acc_averager = Unbound
    /\ val_loss_averager = Unbound
    /\ val_acc_averager = Unbound
    /\ trlog = NewTrlog
    /\ max_acc_pth = NoFile
    /\ epoch_pths = <<>>
    /\ trlog_file = NoFile
    /\ last_epoch = 0
    /\ hist = NewHist

Init == TrainerInit /\ LoadIdle /\ OodIdle /\ EpisodeIdle /\ OodVectorsIdle

\* meta.py:122-131: loop head, model.train(), fresh train averagers, train loader
StartEpoch ==
    /\ pc = "epoch"
    /\ mode' = "train"
    /\ train_loss_averager' = Averager
    /\ train_acc_averager' = Averager
    /\ task_id' = IF NumTrain >= 1 THEN 1 ELSE 0
    /\ pc' = IF NumTrain >= 1 THEN "train_forward" ELSE "train_end"
    /\ hist' = [hist EXCEPT !.sums = Append(@, NoEpisodes)]
    /\ UNCHANGED <<lvars, ovars, evars, qvars, epoch, params, val_loss_averager, val_acc_averager, trlog,
                   max_acc_pth, epoch_pths, trlog_file, last_epoch>>

\* self.model.meta_train_forward(...): reads the stored parameters, adapts a copy
meta_train_forward(p) == p

\* self.optimizer.step(): the one write of the stored parameters
OptimizerStep(p) == p + 1

\* meta.py:133-152: forward, loss, accuracy, averagers
TrainForward ==
    /\ pc = "train_forward"
    /\ \E o \in Outcomes :
        /\ train_loss_averager' = AveragerAdd(train_loss_averager, o.loss)
        /\ train_acc_averager' = AveragerAdd(train_acc_averager, o.acc)
        /\ hist' = [hist EXCEPT !.nonfinite = @ \/ IsNaN(o.loss),
                                !.sums[epoch].tn = @ + 1,
                                !.sums[epoch].tl = RatAdd(@, o.loss),
                                !.sums[epoch].ta = RatAdd(@, o.acc)]
    /\ params' = meta_train_forward(params)
    /\ pc' = "train_step"
    /\ UNCHANGED <<lvars, ovars, evars, qvars, epoch, mode, task_id, val_loss_averager, val_acc_averager, trlog,
                   max_acc_pth, epoch_pths, trlog_file, last_epoch>>

\* as TrainStep, with the schedule stepped in the episode loop
TrainStepSched ==
    /\ pc = "train_step"
    /\ params' = OptimizerStep(params)
    /\ hist' = [hist EXCEPT !.opt_steps = @ + 1]
    /\ last_epoch' = last_epoch + 1
    /\ IF task_id < NumTrain
         THEN task_id' = task_id + 1 /\ pc' = "train_forward"
         ELSE task_id' = task_id /\ pc' = "train_end"
    /\ UNCHANGED <<lvars, ovars, evars, qvars, epoch, mode, train_loss_averager, train_acc_averager,
                   val_loss_averager, val_acc_averager, trlog, max_acc_pth,
                   epoch_pths, trlog_file>>

\* meta.py:155-157: zero_grad, backward, optimizer.step(); then the next episode
TrainStep ==
    /\ pc = "train_step"
    /\ params' = OptimizerStep(params)
    /\ hist' = [hist EXCEPT !.opt_steps = @ + 1]
    /\ IF task_id < NumTrain
         THEN task_id' = task_id + 1 /\ pc' = "train_forward"
         ELSE task_id' = task_id /\ pc' = "train_end"
    /\ UNCHANGED <<lvars, ovars, evars, qvars, epoch, mode, train_loss_averager, train_acc_averager,
                   val_loss_averager, val_acc_averager, trlog, max_acc_pth,
                   epoch_pths, trlog_file, last_epoch>>

\* as EndTrain, with the validation pass adding to the accumulators of the
\* training pass
EndTrainShared ==
    /\ pc = "train_end"
    /\ train_loss_averager' = AveragerData(train_loss_averager)
    /\ train_acc_averager' = AveragerData(train_acc_averager)
    /\ val_loss_averager' = train_loss_averager
    /\ val_acc_averager' = train_acc_averager
    /\ mode' = "eval"
    /\ task_id' = IF NumVal >= 1 THEN 1 ELSE 0
    /\ pc' = IF NumVal >= 1 THEN "val_forward" ELSE "best"
    /\ hist' = [hist EXCEPT !.after_train = Append(@, params)]
    /\ UNCHANGED <<lvars, ovars, evars, qvars, epoch, params, trlog, max_acc_pth, epoch_pths, trlog_file,
                   last_epoch>>

\* meta.py:160-174: the train means, fresh val averagers, model.eval(), val loader
EndTrain ==
    /\ pc = "train_end"
    /\ train_loss_averager' = AveragerData(train_loss_averager)
    /\ train_acc_averager' = AveragerData(train_acc_averager)
    /\ val_loss_averager' = Averager
    /\ val_acc_averager' = Averager
    /\ mode' = "eval"
    /\ task_id' = IF NumVal >= 1 THEN 1 ELSE 0
    /\ pc' = IF NumVal >= 1 THEN "val_forward" ELSE "best"
    /\ hist' = [hist EXCEPT !.after_train = Append(@, params)]
    /\ UNCHANGED <<lvars, ovars, evars, qvars, epoch, params, trlog, max_acc_pth, epoch_pths, trlog_file,
                   last_epoch>>

\* as ValEpisode, with the loop left after its first episode
ValEpisodeBreak ==
    /\ pc = "val_forward"
    /\ \E o \in Outcomes :
        /\ val_loss_averager' = AveragerAdd(val_loss_averager, o.loss)
        /\ val_acc_averager' = AveragerAdd(val_acc_averager, o.acc)
        /\ hist' = [hist EXCEPT !.nonfinite = @ \/ IsNaN(o.loss),
                                !.sums[epoch].vn = @ + 1,
                                !.sums[epoch].vl = RatAdd(@, o.loss),
                                !.sums[epoch].va = RatAdd(@, o.acc)]
    /\ params' = meta_train_forward(params)
    /\ task_id' = task_id
    /\ pc' = "best"
    /\ UNCHANGED <<lvars, ovars, evars, qvars, epoch, mode, train_loss_averager, train_acc_averager, trlog,
                   max_acc_pth, epoch_pths, trlog_file, last_epoch>>

\* as ValEpisode, with backward and optimizer.step() as in a training episode
ValEpisodeStep ==
    /\ pc = "val_forward"
    /\ \E o \in Outcomes :
        /\ val_loss_averager' = AveragerAdd(val_loss_averager, o.loss)
        /\ val_acc_averager' = AveragerAdd(val_acc_averager, o.acc)
        /\ hist' = [hist EXCEPT !.nonfinite = @ \/ IsNaN(o.loss),
                                !.opt_steps = @ + 1,
                                !.sums[epoch].vn = @ + 1,
                                !.sums[epoch].vl = RatAdd(@, o.loss),
                                !.sums[epoch].va = RatAdd(@, o.acc)]
    /\ params' = OptimizerStep(meta_train_forward(params))
    /\ IF task_id < NumVal
         THEN task_id' = task_id + 1 /\ pc' = "val_forward"
         ELSE task_id' = task_id /\ pc' = "best"
    /\ UNCHANGED <<lvars, ovars, evars, qvars, epoch, mode, train_loss_averager, train_acc_averager, trlog,
                   max_acc_pth, epoch_pths, trlog_file, last_epoch>>

\* meta.py:176-191: a validation episode: forward, loss, accuracy, averagers
ValEpisode ==
    /\ pc = "val_forward"
    /\ \E o \in Outcomes :
        /\ val_loss_averager' = AveragerAdd(val_loss_averager, o.loss)
        /\ val_acc_averager' = AveragerAdd(val_acc_averager, o.acc)
        /\ hist' = [hist EXCEPT !.nonfinite = @ \/ IsNaN(o.loss),
                                !.sums[epoch].vn = @ + 1,
                                !.sums[epoch].vl = RatAdd(@, o.loss),
                                !.sums[epoch].va = RatAdd(@, o.acc)]
    /\ params' = meta_train_forward(params)
    /\ IF task_id < NumVal
         THEN task_id' = task_id + 1 /\ pc' = "val_forward"
         ELSE task_id' = task_id /\ pc' = "best"
    /\ UNCHANGED <<lvars, ovars, evars, qvars, epoch, mode, train_loss_averager, train_acc_averager, trlog,
                   max_acc_pth, epoch_pths, trlog_file, last_epoch>>

\* as Improves, with >= for >
ImprovesOrEqual(acc, best) == ~IsNaN(acc) /\ ~IsNaN(best) /\ ~RatGT(best, acc)

\* meta.py:201  if val_acc_averager > trlog['max_acc']
Improves(acc, best) == RatGT(acc, best)

\* meta.py:103-104  save_model: the model's state_dict as it is now
save_model(p) == [exists |-> TRUE, params |-> p]

\* meta.py:194-207: the validation means, the best model so far, the periodic checkpoint
UpdateBest ==
    /\ pc = "best"
    /\ val_loss_averager' = AveragerData(val_loss_averager)
    /\ val_acc_averager' = AveragerData(val_acc_averager)
    /\ IF Improves(val_acc_averager', trlog.max_acc)
         THEN /\ trlog' = [trlog EXCEPT !.max_acc = val_acc_averager',
                                        !.max_acc_epoch = epoch]
              /\ max_acc_pth' = save_model(params)
              /\ hist' = [hist EXCEPT !.best_saves = Append(@, epoch),
                                      !.decisions = @ + 1]
         ELSE /\ UNCHANGED <<trlog, max_acc_pth>>
              /\ hist' = [hist EXCEPT !.decisions = @ + 1]
    /\ epoch_pths' = IF epoch % SaveEvery = 0
                       THEN Append(epoch_pths, <<epoch, save_model(params)>>)
                       ELSE epoch_pths
    /\ pc' = "log"
    /\ UNCHANGED <<lvars, ovars, evars, qvars, epoch, mode, task_id, params, train_loss_averager,
                   train_acc_averager, trlog_file, last_epoch>>

\* as AppendEpoch, with the accuracies appended to each other's history
AppendEpochSwapped(log, tl, ta, vl, va) ==
    [log EXCEPT !.train_loss = Append(@, tl), !.train_acc = Append(@, va),
                !.val_loss = Append(@, vl), !.val_acc = Append(@, ta)]

\* meta.py:212-215: the epoch's four means appended to the histories
AppendEpoch(log, tl, ta, vl, va) ==
    [log EXCEPT !.train_loss = Append(@, tl), !.train_acc = Append(@, ta),
                !.val_loss = Append(@, vl), !.val_acc = Append(@, va)]

\* meta.py:211-218: update the log and save it over the trlog file
SaveLog ==
    /\ pc = "log"
    /\ trlog' = AppendEpoch(trlog, train_loss_averager, train_acc_averager,
                            val_loss_averager, val_acc_averager)
    /\ trlog_file' = [exists |-> TRUE, log |-> trlog']
    /\ hist' = [hist EXCEPT !.log_saves = @ + 1]
    /\ pc' = "lr_step"
    /\ UNCHANGED <<lvars, ovars, evars, qvars, epoch, mode, task_id, params, train_loss_averager,
                   train_acc_averager, val_loss_averager, val_acc_averager,
                   max_acc_pth, epoch_pths, last_epoch>>

\* as HasNextEpoch, stopping early once an epoch has not improved the best accuracy
HasNextEpochEarlyStop(e) == e + 1 <= MaxEpoch /\ trlog.max_acc_epoch = e

\* range(1, max_epoch + 1): is there another epoch after e
HasNextEpoch(e) == e + 1 <= MaxEpoch

\* meta.py:219-222 and the loop's next iteration: step the schedule, next epoch or end
LrStep ==
    /\ pc = "lr_step"
    /\ last_epoch' = last_epoch + 1
    /\ IF HasNextEpoch(epoch)
         THEN epoch' = epoch + 1 /\ pc' = "epoch"
         ELSE epoch' = epoch /\ pc' = "done"
    /\ UNCHANGED <<lvars, ovars, evars, qvars, mode, task_id, params, train_loss_averager,
                   train_acc_averager, val_loss_averager, val_acc_averager, trlog,
                   max_acc_pth, epoch_pths, trlog_file, hist>>

Next ==
    \/ StartEpoch
    \/ TrainForward
    \/ TrainStep
    \/ EndTrain
    \/ ValEpisode
    \/ UpdateBest
    \/ SaveLog
    \/ LrStep

Spec == Init /\ [][Next]_vars

(***************************************************************************)
(* MetaTrainer.__init__: the pretrain checkpoint loaded into the meta      *)
(* model. A parameter mapping is a function from key strings to tensors.   *)
(***************************************************************************)
\* keys a pretrain checkpoint may hold, and the tensors under them
SourceKeys == {"conv1.weight", "fc.weight", "encoder.conv1.weight"}
SourceTensors == {"T1", "T2"}

\* keys the meta model may have, and the tensor each holds after construction
TargetKeys ==
    {"encoder.conv1.weight", "pre_encoder.conv1.weight", "encoder.encoder.conv1.weight",
     "pre_encoder.fc.weight", "meta_base_learner.fc1_w"}
InitTensor == "W0"

\* meta.py:90, 92  {prefix + k: v for k, v in d.items()}
WithPrefix(prefix, d) ==
    [kk \in {prefix \o k : k \in DOMAIN d} |->
        d[CHOOSE k \in DOMAIN d : prefix \o k = kk]]

\* as FilterKeys, keeping every entry
FilterKeysNone(d, target) == d

\* meta.py:91, 93  {k: v for k, v in d.items() if k in self.model_dict}
FilterKeys(d, target) == [k \in {x \in DOMAIN d : x \in DOMAIN target} |-> d[k]]

\* meta.py:94, 95  dict.update
DictUpdate(d, u) ==
    [k \in (DOMAIN d) \cup (DOMAIN u) |-> IF k \in DOMAIN u THEN u[k] ELSE d[k]]

\* the model as MtlLearner(args) built it, the checkpoint not read yet
LoadInit ==
    /\ load_pc = "start"
    /\ pretrained_dict = EmptyDict
    /\ \E T \in SUBSET TargetKeys : model_state = [k \in T |-> InitTensor]
    /\ model_dict = EmptyDict
    /\ meta_pretrained_dict = EmptyDict
    /\ pre_pretrained_dict = EmptyDict
    /\ load_error = FALSE
    /\ orig_state = model_state

\* meta.py:86-89: read the checkpoint's params, take the model's state_dict
LoadCheckpoint ==
    /\ load_pc = "start"
    /\ \E S \in SUBSET SourceKeys : pretrained_dict' \in [S -> SourceTensors]
    /\ model_dict' = model_state
    /\ load_pc' = "encoder"
    /\ UNCHANGED <<tvars, ovars, evars, qvars, model_state, meta_pretrained_dict, pre_pretrained_dict,
                   load_error, orig_state>>

\* meta.py:90-91: the entries under 'encoder.', those the model has
PrefixEncoder ==
    /\ load_pc = "encoder"
    /\ meta_pretrained_dict' = FilterKeys(WithPrefix("encoder.", pretrained_dict), model_dict)
    /\ load_pc' = "pre_encoder"
    /\ UNCHANGED <<tvars, ovars, evars, qvars, pretrained_dict, model_state, model_dict,
                   pre_pretrained_dict, load_error, orig_state>>

\* meta.py:92-93: the entries under 'pre_encoder.', those the model has
PrefixPreEncoder ==
    /\ load_pc = "pre_encoder"
    /\ pre_pretrained_dict' =
         FilterKeys(WithPrefix("pre_encoder.", pretrained_dict), model_dict)
    /\ load_pc' = "update"
    /\ UNCHANGED <<tvars, ovars, evars, qvars, pretrained_dict, model_state, model_dict,
                   meta_pretrained_dict, load_error, orig_state>>

\* meta.py:94-95: both into self.model_dict
UpdateModelDict ==
    /\ load_pc = "update"
    /\ model_dict' = DictUpdate(DictUpdate(model_dict, meta_pretrained_dict),
                                pre_pretrained_dict)
    /\ load_pc' = "load"
    /\ UNCHANGED <<tvars, ovars, evars, qvars, pretrained_dict, model_state, meta_pretrained_dict,
                   pre_pretrained_dict, load_error, orig_state>>

\* meta.py:96: load_state_dict (strict): the keys must be the model's own
LoadStateDict ==
    /\ load_pc = "load"
    /\ IF DOMAIN model_dict = DOMAIN model_state
         THEN model_state' = model_dict /\ load_error' = FALSE
         ELSE model_state' = model_state /\ load_error' = TRUE
    /\ load_pc' = "loaded"
    /\ UNCHANGED <<tvars, ovars, evars, qvars, pretrained_dict, model_dict, meta_pretrained_dict,
                   pre_pretrained_dict, orig_state>>

LoadNext ==
    \/ LoadCheckpoint
    \/ PrefixEncoder
    \/ PrefixPreEncoder
    \/ UpdateModelDict
    \/ LoadStateDict

InitLoad == TrainerInit /\ LoadInit /\ OodIdle /\ EpisodeIdle /\ OodVectorsIdle

SpecLoad == InitLoad /\ [][LoadNext]_vars

(***************************************************************************)
(* C8: for every source key k with tensor T and each prefix p of           *)
(* 'encoder.' and 'pre_encoder.', the loaded mapping has p+k -> T iff p+k  *)
(* is a key of the target model's mapping; the mapping given to            *)
(* load_state_dict has exactly the target's original keys, and a target    *)
(* key no prefixed source key matches keeps its original value.            *)
(***************************************************************************)
Prefixes == {"encoder.", "pre_encoder."}

C8_PrefixLoad ==
    load_pc = "loaded" =>
        /\ ~load_error
        /\ DOMAIN model_dict = DOMAIN orig_state
        /\ model_state = model_dict
        /\ \A k \in DOMAIN pretrained_dict : \A p \in Prefixes :
             /\ (p \o k) \in DOMAIN orig_state <=>
                  ((p \o k) \in DOMAIN model_dict /\ model_dict[p \o k] = pretrained_dict[k])
             /\ (p \o k) \in DOMAIN orig_state <=>
                  (p \o k) \in (DOMAIN meta_pretrained_dict) \cup (DOMAIN pre_pretrained_dict)
        /\ \A kk \in DOMAIN orig_state :
             (\A k \in DOMAIN pretrained_dict : \A p \in Prefixes : p \o k # kk) =>
                 model_dict[kk] = orig_state[kk]

\* one source key loaded under both prefixes, one dropped under both, one target kept
C8_Witness ==
    /\ load_pc = "loaded"
    /\ DOMAIN pretrained_dict = {"conv1.weight", "fc.weight"}
    /\ DOMAIN orig_state =
         {"encoder.conv1.weight", "pre_encoder.conv1.weight", "meta_base_learner.fc1_w"}
    /\ model_state["encoder.conv1.weight"] = pretrained_dict["conv1.weight"]
    /\ model_state["pre_encoder.conv1.weight"] = pretrained_dict["conv1.weight"]
    /\ model_state["meta_base_learner.fc1_w"] = InitTensor

(***************************************************************************)
(* OodDetection.py: the loop over paired tasks and its running statistics. *)
(* A square root is kept exact: [sq |-> r] is the non-negative number      *)
(* whose square is the rational r.                                         *)
(***************************************************************************)
\* np.sqrt(x)
NpSqrt(x) == [sq |-> x]

\* c * s of a float c >= 0 and a root s
RootScale(c, s) == [sq |-> RatMul(RatMul(c, c), s.sq)]

\* s / t of two roots
RootDiv(s, t) == [sq |-> RatDiv(s.sq, t.sq)]

RECURSIVE SeqSum(_)
SeqSum(data) ==
    IF data = <<>> THEN Rat(0, 1) ELSE RatAdd(data[1], SeqSum(Tail(data)))

\* np.mean(np.array(data))
NpMean(data) == RatDivInt(SeqSum(data), Len(data))

\* np.std(np.array(data)): sqrt(mean(abs(x - x.mean()) ** 2))
NpStd(data) ==
    LET m == NpMean(data)
        dev == [i \in 1..Len(data) |-> RatMul(RatSub(data[i], m), RatSub(data[i], m))]
    IN  NpSqrt(NpMean(dev))

\* OodDetection.py:30  the factor 1.96
Z95 == Rat(196, 100)

\* as calculate_avg_std_ci95, with the sample standard deviation (ddof = 1)
calculate_avg_std_ci95_sample(data) ==
    LET m == NpMean(data)
        dev == [i \in 1..Len(data) |-> RatMul(RatSub(data[i], m), RatSub(data[i], m))]
        std == NpSqrt(RatDivInt(SeqSum(dev), Len(data) - 1))
    IN  [avg |-> m, std |-> std,
         ci95 |-> RootDiv(RootScale(Z95, std), NpSqrt(Rat(Len(data), 1)))]

\* OodDetection.py:27-32
calculate_avg_std_ci95(data) ==
    LET avg == NpMean(data)
        std == NpStd(data)
        ci95 == RootDiv(RootScale(Z95, std), NpSqrt(Rat(Len(data), 1)))
    IN  [avg |-> avg, std |-> std, ci95 |-> ci95]

\* what ROC_OOD can return for a task: the AUROC of differential entropy, of mutual
\* information and of precision, or the sentinel when the AUROC is undefined
AurocTriples ==
    {<<Rat(8, 10), Rat(6, 10), Rat(1, 1)>>, <<Rat(6, 10), Rat(6, 10), Rat(1, 2)>>,
     <<Rat(1, 1), Rat(9, 10), Rat(0, 1)>>, <<NaN, NaN, NaN>>}

\* OodDetection.py:105-110: the three series empty, the loop about to start
OodInit ==
    /\ ood_pc = IF TaskNum >= 1 THEN "task" ELSE "done"
    /\ ood_task_id = IF TaskNum >= 1 THEN 1 ELSE 0
    /\ auroc_Dents = <<>>
    /\ auroc_MIs = <<>>
    /\ auroc_precisions = <<>>
    /\ ood_stats = Unbound
    /\ printed = <<>>
    /\ roc_returned = <<>>

\* OodDetection.py:111-142: a paired task: forward, scores, ROC_OOD, the three appends
OodTask ==
    /\ ood_pc = "task"
    /\ \E t \in AurocTriples :
        /\ auroc_Dents' = Append(auroc_Dents, t[1])
        /\ auroc_MIs' = Append(auroc_MIs, t[2])
        /\ auroc_precisions' = Append(auroc_precisions, t[3])
        /\ roc_returned' = Append(roc_returned, t)
    /\ ood_pc' = "report"
    /\ UNCHANGED <<tvars, lvars, evars, qvars, ood_task_id, ood_stats, printed>>

\* OodDetection.py:144-152: the running statistics, the report line, the next task
OodReport ==
    /\ ood_pc = "report"
    /\ ood_stats' = [Dent |-> calculate_avg_std_ci95(auroc_Dents),
                     MI |-> calculate_avg_std_ci95(auroc_MIs),
                     precision |-> calculate_avg_std_ci95(auroc_precisions)]
    /\ printed' = Append(printed,
                         [task_id |-> ood_task_id, of |-> TaskNum,
                          avg |-> <<ood_stats'.Dent.avg, ood_stats'.MI.avg,
                                    ood_stats'.precision.avg>>,
                          ci95 |-> <<ood_stats'.Dent.ci95, ood_stats'.MI.ci95,
                                     ood_stats'.precision.ci95>>,
                          auroc |-> <<auroc_Dents[Len(auroc_Dents)],
                                      auroc_MIs[Len(auroc_MIs)],
                                      auroc_precisions[Len(auroc_precisions)]>>])
    /\ IF ood_task_id < TaskNum
         THEN ood_task_id' = ood_task_id + 1 /\ ood_pc' = "task"
         ELSE ood_task_id' = ood_task_id /\ ood_pc' = "done"
    /\ UNCHANGED <<tvars, lvars, evars, qvars, auroc_Dents, auroc_MIs, auroc_precisions, roc_returned>>

OodNext ==
    \/ OodTask
    \/ OodReport

InitOod == TrainerInit /\ LoadIdle /\ OodInit /\ EpisodeIdle /\ OodVectorsIdle

SpecOod == InitOod /\ [][OodNext]_vars

(***************************************************************************)
(* The statistics of a series as the claims state them.                    *)
(***************************************************************************)
\* the series of statistic j (1: Dent, 2: MI, 3: precision) over the first k tasks
Series(j, k) == [i \in 1..k |-> roc_returned[i][j]]

\* the number x, as a root
ExactRoot(x) == [sq |-> RatMul(x, x)]

\* mean, population standard deviation (E[x^2] - E[x]^2) and 1.96 * std / sqrt(k)
PopStats(data) ==
    LET k == Len(data)
        m == RatDivInt(SeqSum(data), k)
        sqs == [i \in 1..k |-> RatMul(data[i], data[i])]
        var == RatSub(RatDivInt(SeqSum(sqs), k), RatMul(m, m))
    IN  [avg |-> m, std |-> [sq |-> var],
         ci95 |-> [sq |-> RatDivInt(RatMul(RatMul(Z95, Z95), var), k)]]

Defined(data) == SelectSeq(data, LAMBDA x : ~IsNaN(x))

StatsOf(j) == IF j = 1 THEN ood_stats.Dent ELSE IF j = 2 THEN ood_stats.MI
              ELSE ood_stats.precision

(***************************************************************************)
(* C9: after the k-th paired task the running mean, standard deviation and *)
(* 95% half-width of each of the three AUROC series are those of exactly   *)
(* the k values of tasks 1..k, std the population standard deviation and   *)
(* ci95 = 1.96 * std / sqrt(k); [0.8] gives 0.8, 0, 0 and [0.8, 0.6] gives *)
(* 0.7, 0.1, 1.96 * 0.1 / sqrt(2). A report is printed after every task.   *)
(***************************************************************************)
C9_RunningStats ==
    LET k == Len(printed)
    IN  /\ k = Len(roc_returned) - (IF ood_pc = "report" THEN 1 ELSE 0)
        /\ ood_pc = "done" => k = TaskNum
        /\ \A i \in 1..k : printed[i].task_id = i
        /\ k > 0 =>
             \A j \in 1..3 :
                /\ StatsOf(j) = PopStats(Series(j, k))
                /\ printed[k].avg[j] = StatsOf(j).avg
                /\ printed[k].ci95[j] = StatsOf(j).ci95
                /\ Series(j, k) = <<Rat(8, 10)>> =>
                     StatsOf(j) = [avg |-> Rat(8, 10), std |-> ExactRoot(Rat(0, 1)),
                                   ci95 |-> ExactRoot(Rat(0, 1))]
                /\ Series(j, k) = <<Rat(8, 10), Rat(6, 10)>> =>
                     StatsOf(j) =
                        [avg |-> Rat(7, 10), std |-> ExactRoot(Rat(1, 10)),
                         ci95 |-> RootDiv(RootScale(Z95, ExactRoot(Rat(1, 10))),
                                          NpSqrt(Rat(2, 1)))]

\* two tasks reported, the first series [0.8, 0.6] with mean 0.7 and std 0.1
C9_Witness ==
    /\ Len(printed) = 2
    /\ ood_pc = "task"
    /\ auroc_Dents = <<Rat(8, 10), Rat(6, 10)>>
    /\ ood_stats.Dent.avg = Rat(7, 10)
    /\ ood_stats.Dent.std = ExactRoot(Rat(1, 10))

(***************************************************************************)
(* C10: a task whose AUROC is undefined yields the sentinel NaN, the loop  *)
(* goes on, and the sentinel is left out of the running statistics: they   *)
(* are those of the defined AUROCs alone, and not NaN once one defined     *)
(* AUROC has been seen.                                                    *)
(***************************************************************************)
C10_SentinelExcluded ==
    Len(printed) > 0 /\ ood_pc # "report" =>
        \A j \in 1..3 :
            LET seen == Defined(Series(j, Len(printed)))
            IN  Len(seen) > 0 =>
                    /\ ~IsNaN(StatsOf(j).avg)
                    /\ ~IsNaN(StatsOf(j).std.sq)
                    /\ ~IsNaN(StatsOf(j).ci95.sq)
                    /\ StatsOf(j) = PopStats(seen)

\* the run goes on: every action of the loop is taken when it can be
FairSpec == Spec /\ WF_vars(Next)

(***************************************************************************)
(* The epochs as the history saw them: the means of an epoch's episodes,   *)
(* from the sums and counts of the values themselves.                      *)
(***************************************************************************)
Mean(sum, n) == RatDivInt(sum, n)

EpochTrainLoss(e) == Mean(hist.sums[e].tl, hist.sums[e].tn)
EpochTrainAcc(e) == Mean(hist.sums[e].ta, hist.sums[e].tn)
EpochValLoss(e) == Mean(hist.sums[e].vl, hist.sums[e].vn)
EpochValAcc(e) == Mean(hist.sums[e].va, hist.sums[e].vn)

RatMax(x, y) == IF RatGT(y, x) THEN y ELSE x

\* the maximum of 0.0 and the validation accuracies of epochs 1..k
RECURSIVE BestOver(_)
BestOver(k) == IF k = 0 THEN Rat(0, 1) ELSE RatMax(BestOver(k - 1), EpochValAcc(k))

SeqToSet(q) == {q[i] : i \in 1..Len(q)}

\* epochs whose training-log entry has been written, by the position in the loop
EpochsLogged == IF pc \in {"lr_step", "done"} THEN epoch ELSE epoch - 1

\* epochs wholly done, by the position in the loop
EpochsCompleted == IF pc = "done" THEN epoch ELSE epoch - 1

RECURSIVE TrainEpisodes(_)
TrainEpisodes(k) == IF k = 0 THEN 0 ELSE TrainEpisodes(k - 1) + hist.sums[k].tn

(***************************************************************************)
(* C1: max_acc.pth is written in an epoch iff that epoch's mean validation *)
(* accuracy is strictly greater than the best so far (initially 0.0), so   *)
(* trlog.max_acc is the maximum of 0.0 and the epochs' validation          *)
(* accuracies, trlog.max_acc_epoch the earliest epoch that reached it (0   *)
(* if none exceeded 0.0) and max_acc.pth holds the parameters as they were *)
(* at the end of exactly that epoch.                                       *)
(***************************************************************************)
C1_BestCheckpoint ==
    LET k == hist.decisions
        best == BestOver(k)
    IN  /\ trlog.max_acc = best
        /\ trlog.max_acc_epoch =
             IF best = Rat(0, 1) THEN 0
             ELSE CHOOSE e \in 1..k :
                    /\ EpochValAcc(e) = best
                    /\ \A d \in 1..(e - 1) : EpochValAcc(d) # best
        /\ \A e \in 1..k :
             (e \in SeqToSet(hist.best_saves)) <=> RatGT(EpochValAcc(e), BestOver(e - 1))
        /\ max_acc_pth =
             IF trlog.max_acc_epoch = 0 THEN NoFile
             ELSE [exists |-> TRUE, params |-> hist.after_train[trlog.max_acc_epoch]]

\* two epochs decided, the second equal to the first and not saved
C1_Witness ==
    /\ hist.decisions = 2
    /\ EpochValAcc(1) = Rat(1, 2)
    /\ EpochValAcc(2) = Rat(1, 2)
    /\ hist.best_saves = <<1>>
    /\ max_acc_pth = [exists |-> TRUE, params |-> NumTrain]
    /\ params = 2 * NumTrain

(***************************************************************************)
(* C2: once a non-finite loss has been computed in a training or a         *)
(* validation episode, the run halts: no optimizer step, no write of       *)
(* max_acc.pth and no write of the training log follows.                   *)
(***************************************************************************)
C2_HaltsOnNonFinite ==
    [][hist.nonfinite =>
         /\ params' = params
         /\ max_acc_pth' = max_acc_pth
         /\ trlog_file' = trlog_file]_vars

(***************************************************************************)
(* C3: the training log is written, whole, exactly once at the end of      *)
(* every epoch; the log written after epoch e has the keys args,           *)
(* train_loss, val_loss, train_acc, val_acc, max_acc, max_acc_epoch, and   *)
(* each of its four histories has length e, its i-th entry the mean of     *)
(* epoch i's values.                                                       *)
(***************************************************************************)
C3_LogEveryEpoch ==
    /\ hist.log_saves = EpochsLogged
    /\ trlog_file.exists <=> hist.log_saves > 0
    /\ trlog_file.exists =>
         LET log == trlog_file.log
             e == hist.log_saves
         IN  /\ DOMAIN log = {"args", "train_loss", "val_loss", "train_acc",
                              "val_acc", "max_acc", "max_acc_epoch"}
             /\ log.args = args
             /\ Len(log.train_loss) = e
             /\ Len(log.train_acc) = e
             /\ Len(log.val_loss) = e
             /\ Len(log.val_acc) = e
             /\ \A i \in 1..e :
                  /\ log.train_loss[i] = EpochTrainLoss(i)
                  /\ log.train_acc[i] = EpochTrainAcc(i)
                  /\ log.val_loss[i] = EpochValLoss(i)
                  /\ log.val_acc[i] = EpochValAcc(i)

\* two epochs logged, with means that are no single episode's value
C3_Witness ==
    /\ hist.log_saves = 2
    /\ trlog_file.exists
    /\ trlog_file.log.train_acc = <<Rat(1, 2), Rat(1, 1)>>
    /\ trlog_file.log.val_acc = <<Rat(0, 1), Rat(1, 2)>>
    /\ trlog_file.log.train_loss = <<Rat(3, 2), Rat(1, 1)>>

(***************************************************************************)
(* C4: the stored parameters are written only by the optimizer step, once  *)
(* per training episode; the forward pass leaves them as they are, and     *)
(* through the validation pass of an epoch they are what they were at the  *)
(* end of that epoch's training pass.                                      *)
(***************************************************************************)
C4_StepsAndFrame ==
    /\ hist.opt_steps =
         TrainEpisodes(Len(hist.sums)) - (IF pc = "train_step" THEN 1 ELSE 0)
    /\ pc \in {"val_forward", "best", "log", "lr_step"} =>
         params = hist.after_train[epoch]

C4_WrittenOnlyByStep ==
    params' # params =>
        /\ pc = "train_step"
        /\ hist'.opt_steps = hist.opt_steps + 1

\* C4: the stored parameters change only in the optimizer step of a training episode,
\* once per episode, and stay as the training pass left them through validation
C4_OuterParameters == [](C4_StepsAndFrame) /\ [][C4_WrittenOnlyByStep]_vars

\* in the validation pass of the second epoch, after a validation episode
C4_Witness ==
    /\ pc = "val_forward"
    /\ epoch = 2
    /\ task_id = 2
    /\ params = 2 * NumTrain
    /\ hist.opt_steps = 2 * NumTrain

(***************************************************************************)
(* C5: in every epoch all training episodes come before any validation     *)
(* episode, the best-model decision and write come after all validation    *)
(* episodes, the log is written after the decision, and no training        *)
(* episode of the next epoch starts before the log of this one is written. *)
(***************************************************************************)
C5_EpochOrder ==
    /\ hist.log_saves <= hist.decisions
    /\ hist.decisions <= Len(hist.sums)
    /\ \A e \in 1..Len(hist.sums) :
         /\ hist.sums[e].vn > 0 => hist.sums[e].tn = NumTrain
         /\ hist.decisions >= e => hist.sums[e].vn = NumVal
         /\ e \in SeqToSet(hist.best_saves) => hist.sums[e].vn = NumVal
         /\ e > 1 => hist.log_saves >= e - 1
         /\ (e < Len(hist.sums) \/ pc = "done") =>
              /\ hist.decisions >= e
              /\ hist.log_saves >= e

\* the second epoch has started its training, the first is decided and logged
C5_Witness ==
    /\ Len(hist.sums) = 2
    /\ hist.sums[2].tn = 1
    /\ hist.sums[2].vn = 0
    /\ hist.decisions = 1
    /\ hist.log_saves = 1
    /\ hist.best_saves = <<1>>

(***************************************************************************)
(* C6: the learning-rate schedule is stepped exactly once per epoch, never *)
(* in the episode loops: after e completed epochs it has been stepped e    *)
(* times, and each step comes after that epoch's optimizer steps.          *)
(***************************************************************************)
C6_StepsEqualEpochs == last_epoch = EpochsCompleted

C6_StepAfterEpoch ==
    last_epoch' # last_epoch =>
        /\ last_epoch' = last_epoch + 1
        /\ pc = "lr_step"
        /\ hist.opt_steps = epoch * NumTrain
        /\ hist.sums[epoch].vn = NumVal

\* C6: as many schedule steps as completed epochs, each taken after the epoch's
\* optimizer steps and validation episodes, none in an episode loop
C6_SchedulePerEpoch == [](C6_StepsEqualEpochs) /\ [][C6_StepAfterEpoch]_vars

\* the run has ended with as many schedule steps as epochs and more optimizer steps
C6_Witness ==
    /\ pc = "done"
    /\ last_epoch = MaxEpoch
    /\ hist.opt_steps = MaxEpoch * NumTrain
    /\ hist.opt_steps > last_epoch

(***************************************************************************)
(* C7: meta-training always reaches its end, after exactly max_epoch       *)
(* epochs (1..max_epoch), each with every training and every validation    *)
(* episode; no validation result ends the loop earlier or later.           *)
(***************************************************************************)
C7_EndState ==
    pc = "done" =>
        /\ epoch = MaxEpoch
        /\ Len(hist.sums) = MaxEpoch
        /\ \A e \in 1..MaxEpoch :
             hist.sums[e].tn = NumTrain /\ hist.sums[e].vn = NumVal
        /\ hist.decisions = MaxEpoch
        /\ Len(trlog.val_acc) = MaxEpoch

\* C7: the run ends, and when it has ended exactly max_epoch epochs have run in full
C7_Terminates == <>(pc = "done") /\ [](C7_EndState) /\ [](epoch \in 1..MaxEpoch)

\* the run has ended although no epoch after the first improved the best accuracy
C7_Witness ==
    /\ pc = "done"
    /\ MaxEpoch >= 2
    /\ trlog.max_acc_epoch = 1
    /\ Len(trlog.val_acc) = MaxEpoch

\* ---------------------------------------------------------------------------
\* Tensors as sequences: the torch calls the episode code makes
\* ---------------------------------------------------------------------------

\* the largest way, shot and query counts the runs below are drawn from
MaxWay == 2

MaxShot == 2

MaxQuery == 2

\* torch.arange(n): 0, 1, ..., n-1
arange(n) == [i \in 1..n |-> i - 1]

\* tensor.repeat_interleave(k): every entry k times in a row
repeat_interleave(t, k) == [i \in 1..(Len(t) * k) |-> t[((i - 1) \div k) + 1]]

\* tensor.repeat(k) of a 1-d tensor: the whole tensor, k times over
repeat(t, k) == [i \in 1..(Len(t) * k) |-> t[((i - 1) % Len(t)) + 1]]

zeros_like(t) == [i \in 1..Len(t) |-> 0]

ones_like(t) == [i \in 1..Len(t) |-> 1]

\* torch.cat of 1-d tensors: the entries of the first, then of the second
cat(a, b) == a \o b

\* data[:p] and data[p:]
Upto(data, p) == SubSeq(data, 1, IF p < Len(data) THEN p ELSE Len(data))

From(data, p) == SubSeq(data, (IF p < Len(data) THEN p ELSE Len(data)) + 1, Len(data))

\* ---------------------------------------------------------------------------
\* OodDetection.py: the vectors of one paired task
\* ---------------------------------------------------------------------------

\* the batch a loader yields for task t: way * per_class examples of one source
TaskBatch(src, t, way, per_class) == [k \in 1..(way * per_class) |-> [src |-> src, task |-> t, k |-> k]]

\* utils.misc.get_task_data: the first way*shot examples are the support set,
\* the others the query set, with one label per example
get_task_data(task, a) ==
    LET p == a.shot * a.way
    IN  [data_support |-> Upto(task, p), label_support |-> repeat(arange(a.way), a.shot),
         data_query |-> From(task, p), label_query |-> repeat(arange(a.way), a.query)]

\* MtlLearner.ood_forward: one row of evidence per query example, in the
\* order of the examples; a row is followed by the example it belongs to
ood_forward(data_support, label_support, data_query, ood_data_query) ==
    [evidence |-> data_query, ood_evidence |-> ood_data_query]

\* metrics.compute_*: one scalar per row
compute_differential_entropy(logits) == [i \in 1..Len(logits) |-> [stat |-> "diff_ent", of |-> logits[i]]]

compute_mutual_information(logits) == [i \in 1..Len(logits) |-> [stat |-> "mi", of |-> logits[i]]]

compute_precision(logits) == [i \in 1..Len(logits) |-> [stat |-> "prec", of |-> logits[i]]]

get_uncertainty_score(logits, label) ==
    [diff_ents |-> compute_differential_entropy(logits), mi |-> compute_mutual_information(logits),
     precs |-> compute_precision(logits)]

OodArgs == [way : 1..MaxWay, shot : 1..MaxShot, query : 1..MaxQuery]

NoTensor == <<>>

OodVectorsInit ==
    ot \in [pc : {"task"}, task_id : {1}, args : OodArgs, data_query : {NoTensor}, label_query : {NoTensor},
            ood_data_query : {NoTensor}, ood_labels_query : {NoTensor}, evidence : {NoTensor},
            ood_evidence : {NoTensor}, diff_ents : {NoTensor}, mi : {NoTensor}, precs : {NoTensor},
            labels : {NoTensor}, ood_diff_ents : {NoTensor}, ood_mi : {NoTensor}, ood_precs : {NoTensor},
            ood_labels : {NoTensor}, roc_args : {Unbound}]

\* lines 110-112: the next pair of tasks, split into support and query
OodGetTaskData ==
    /\ ot # Unbound
    /\ ot.pc = "task"
    /\ ot.task_id <= TaskNum
    /\ LET a == ot.args
           id == get_task_data(TaskBatch("id", ot.task_id, a.way, a.shot + a.query), a)
           ood == get_task_data(TaskBatch("ood", ot.task_id, a.way, a.shot + a.query), a)
       IN  ot' = [ot EXCEPT !.pc = "forward", !.data_query = id.data_query, !.label_query = id.label_query,
                            !.ood_data_query = ood.data_query, !.ood_labels_query = ood.label_query,
                            !.roc_args = Unbound]
    /\ UNCHANGED <<tvars, lvars, ovars, evars>>

\* lines 114-121
OodForward ==
    /\ ot # Unbound
    /\ ot.pc = "forward"
    /\ LET out == ood_forward(NoTensor, NoTensor, ot.data_query, ot.ood_data_query)
       IN  ot' = [ot EXCEPT !.pc = "id_scores", !.evidence = out.evidence, !.ood_evidence = out.ood_evidence]
    /\ UNCHANGED <<tvars, lvars, ovars, evars>>

\* lines 123-124: alpha and log_alpha keep the rows of evidence
OodIdScores ==
    /\ ot # Unbound
    /\ ot.pc = "id_scores"
    /\ LET s == get_uncertainty_score(ot.evidence, 0)
       IN  ot' = [ot EXCEPT !.pc = "ood_scores", !.diff_ents = s.diff_ents, !.mi = s.mi, !.precs = s.precs,
                            !.labels = zeros_like(ot.label_query)]
    /\ UNCHANGED <<tvars, lvars, ovars, evars>>

\* lines 127-131
OodOodScores ==
    /\ ot # Unbound
    /\ ot.pc = "ood_scores"
    /\ LET s == get_uncertainty_score(ot.ood_evidence, 1)
       IN  ot' = [ot EXCEPT !.pc = "concat", !.ood_diff_ents = s.diff_ents, !.ood_mi = s.mi,
                            !.ood_precs = s.precs, !.ood_labels = ones_like(ot.ood_labels_query)]
    /\ UNCHANGED <<tvars, lvars, ovars, evars>>

\* the labels joined the other way round
OodConcatLabelsSwapped ==
    /\ ot # Unbound
    /\ ot.pc = "concat"
    /\ ot' = [ot EXCEPT !.pc = IF ot.task_id < TaskNum THEN "task" ELSE "done",
                        !.task_id = IF ot.task_id < TaskNum THEN ot.task_id + 1 ELSE ot.task_id,
                        !.roc_args = [all_diff_ents |-> cat(ot.diff_ents, ot.ood_diff_ents),
                                      all_mis |-> cat(ot.mi, ot.ood_mi),
                                      all_precs |-> cat(ot.precs, ot.ood_precs),
                                      all_labels |-> cat(ot.ood_labels, ot.labels)]]
    /\ UNCHANGED <<tvars, lvars, ovars, evars>>

\* lines 134-139: the four vectors ROC_OOD is called with, then the next task
OodConcat ==
    /\ ot # Unbound
    /\ ot.pc = "concat"
    /\ ot' = [ot EXCEPT !.pc = IF ot.task_id < TaskNum THEN "task" ELSE "done",
                        !.task_id = IF ot.task_id < TaskNum THEN ot.task_id + 1 ELSE ot.task_id,
                        !.roc_args = [all_diff_ents |-> cat(ot.diff_ents, ot.ood_diff_ents),
                                      all_mis |-> cat(ot.mi, ot.ood_mi),
                                      all_precs |-> cat(ot.precs, ot.ood_precs),
                                      all_labels |-> cat(ot.labels, ot.ood_labels)]]
    /\ UNCHANGED <<tvars, lvars, ovars, evars>>

OodVectorsNext ==
    \/ OodGetTaskData
    \/ OodForward
    \/ OodIdScores
    \/ OodOodScores
    \/ OodConcat

InitOodVectors == TrainerInit /\ LoadIdle /\ OodIdle /\ EpisodeIdle /\ OodVectorsInit

SpecOodVectors == InitOodVectors /\ [][OodVectorsNext]_vars

\* the example position i of the joined vectors stands for
JoinedExample(i) ==
    IF i <= Len(ot.data_query) THEN ot.data_query[i] ELSE ot.ood_data_query[i - Len(ot.data_query)]

\* C11: the three statistic vectors and the label vector given to ROC_OOD all
\* have one entry per in-distribution query example followed by one entry per
\* OOD query example; the label is 0 on the former and 1 on the latter, and
\* entry i of every vector belongs to the same example
C11_VectorsAligned ==
    (ot # Unbound /\ ot.roc_args # Unbound) =>
        LET r == ot.roc_args
            n == Len(ot.data_query) + Len(ot.ood_data_query)
        IN  /\ Len(r.all_diff_ents) = n
            /\ Len(r.all_mis) = n
            /\ Len(r.all_precs) = n
            /\ Len(r.all_labels) = n
            /\ \A i \in 1..n :
                /\ r.all_labels[i] = (IF i <= Len(ot.data_query) THEN 0 ELSE 1)
                /\ r.all_diff_ents[i] = [stat |-> "diff_ent", of |-> JoinedExample(i)]
                /\ r.all_mis[i] = [stat |-> "mi", of |-> JoinedExample(i)]
                /\ r.all_precs[i] = [stat |-> "prec", of |-> JoinedExample(i)]

C11_Witness ==
    /\ ot # Unbound
    /\ ot.roc_args # Unbound
    /\ ot.args.way = 2
    /\ ot.args.query = 2
    /\ Len(ot.roc_args.all_labels) = 8
    /\ ot.roc_args.all_labels[4] = 0
    /\ ot.roc_args.all_labels[5] = 1
    /\ ot.roc_args.all_mis[5].of.src = "ood"

\* ---------------------------------------------------------------------------
\* meta.py: the tensors of an episode and the arguments of the loss
\*
\* The loop of meta_train once more, followed for what the tensors hold and
\* what the loss is called with; every episode of a pass is built the same
\* way, so one episode stands for the pass.  What the loop does with the
\* loss is in the trainer actions above.
\* ---------------------------------------------------------------------------

\* the factor of max_epoch in annealing_step (meta.py:143, 184)
AnnealFactor == 5

LossTypes == {"mse", "log", "digamma"}

\* the order in which a sampler lists the items of an episode: class after
\* class (spec 4.1), or one item of every class, then the next of every class
Layouts == {"class_blocks", "round_robin"}

EpisodeArgs ==
    [way : 1..MaxWay, shot : 1..MaxShot, train_query : 1..MaxQuery, val_query : 1..MaxQuery,
     loss_type : LossTypes, max_epoch : 1..MaxEpoch]

\* the batch of a CategoriesSampler(label, n_batch, way, per_class): each item
\* is named by the place of its class among the selected classes and its
\* place among the items sampled for that class
EpisodeBatch(layout, way, per_class) ==
    [i \in 1..(way * per_class) |->
        IF layout = "class_blocks"
        THEN [cls |-> (i - 1) \div per_class, k |-> ((i - 1) % per_class) + 1]
        ELSE [cls |-> (i - 1) % way, k |-> ((i - 1) \div way) + 1]]

\* MtlLearner.meta_train_forward gives one row of evidence per query item, in
\* the order of the items; a row is followed by the item it belongs to
QueryEvidence(data_support, label_support, data_query) == data_query

\* EDL_loss: the weight of the KL term, min(1, epoch_num / annealing_step)
annealing_coef(epoch_num, annealing_step) ==
    IF epoch_num >= annealing_step THEN Rat(1, 1) ELSE Rat(epoch_num, annealing_step)

\* self.loss, as set in __init__
TrainerLoss(a) == "edl_log_loss"

\* annealing_step as the trainer passes it
AnnealingStepOneRun(max_epoch) == max_epoch

AnnealingStep(max_epoch) == AnnealFactor * max_epoch

\* the call self.loss(alpha_q, label_query, epoch_num=epoch, num_classes=way,
\* annealing_step=5 * max_epoch), with the KL weight the loss derives from it
LossCall(e, phase, alpha_q, label_query) ==
    [fn |-> e.loss, phase |-> phase, alpha_q |-> alpha_q, target |-> label_query, epoch_num |-> e.epoch,
     num_classes |-> e.args.way, annealing_step |-> AnnealingStep(e.args.max_epoch),
     kl_weight |-> annealing_coef(e.epoch, AnnealingStep(e.args.max_epoch))]

EpisodeInit ==
    ep \in [pc : {"labels"}, args : EpisodeArgs, layout : Layouts, loss : {"edl_log_loss"}, epoch : {0},
            label_support : {NoTensor}, label_query : {NoTensor}, data_support : {NoTensor},
            data_query : {NoTensor}, loss_call : {Unbound}, kl_weights : {<<>>}]

\* lines 114-119
MakeLabels ==
    /\ ep # Unbound
    /\ ep.pc = "labels"
    /\ ep' = [ep EXCEPT !.pc = "epoch", !.loss = TrainerLoss(ep.args),
                        !.label_support = repeat(arange(ep.args.way), ep.args.shot),
                        !.label_query = repeat(arange(ep.args.way), ep.args.train_query)]
    /\ UNCHANGED <<tvars, lvars, ovars, qvars>>

\* line 122: the next epoch, or the end of the loop
EpisodeEpoch ==
    /\ ep # Unbound
    /\ ep.pc = "epoch"
    /\ ep' = IF ep.epoch < ep.args.max_epoch
             THEN [ep EXCEPT !.pc = "train", !.epoch = ep.epoch + 1]
             ELSE [ep EXCEPT !.pc = "done"]
    /\ UNCHANGED <<tvars, lvars, ovars, qvars>>

\* lines 132-145: an episode of the train loader
TrainEpisodeTensors ==
    /\ ep # Unbound
    /\ ep.pc = "train"
    /\ LET a == ep.args
           data == EpisodeBatch(ep.layout, a.way, a.shot + a.train_query)
           p == a.shot * a.way
           data_support == Upto(data, p)
           data_query == From(data, p)
           evidence_q == QueryEvidence(data_support, ep.label_support, data_query)
           call == LossCall(ep, "train", evidence_q, ep.label_query)
       IN  ep' = [ep EXCEPT !.pc = "val", !.data_support = data_support, !.data_query = data_query,
                            !.loss_call = call, !.kl_weights = Append(ep.kl_weights, call.kl_weight)]
    /\ UNCHANGED <<tvars, lvars, ovars, qvars>>

\* lines 175-186: an episode of the val loader
ValEpisodeTensors ==
    /\ ep # Unbound
    /\ ep.pc = "val"
    /\ LET a == ep.args
           data == EpisodeBatch(ep.layout, a.way, a.shot + a.val_query)
           p == a.shot * a.way
           data_support == Upto(data, p)
           data_query == From(data, p)
           evidence_q == QueryEvidence(data_support, ep.label_support, data_query)
           call == LossCall(ep, "val", evidence_q, ep.label_query)
       IN  ep' = [ep EXCEPT !.pc = "epoch", !.data_support = data_support, !.data_query = data_query,
                            !.loss_call = call]
    /\ UNCHANGED <<tvars, lvars, ovars, qvars>>

EpisodeNext ==
    \/ MakeLabels
    \/ EpisodeEpoch
    \/ TrainEpisodeTensors
    \/ ValEpisodeTensors

InitEpisode == TrainerInit /\ LoadIdle /\ OodIdle /\ EpisodeInit /\ OodVectorsIdle

SpecEpisode == InitEpisode /\ [][EpisodeNext]_vars

\* the loss has just been called in the given phase
Called(phase) == ep # Unbound /\ ep.loss_call # Unbound /\ ep.loss_call.phase = phase

Count(t, v) == Cardinality({i \in DOMAIN t : t[i] = v})

\* length, range and class balance of the two label tensors
LabelsBalanced ==
    LET a == ep.args
    IN  /\ Len(ep.label_support) = a.way * a.shot
        /\ Len(ep.label_query) = a.way * a.train_query
        /\ \A i \in DOMAIN ep.label_support : ep.label_support[i] \in 0..(a.way - 1)
        /\ \A i \in DOMAIN ep.label_query : ep.label_query[i] \in 0..(a.way - 1)
        /\ \A c \in 0..(a.way - 1) :
            /\ Count(ep.label_support, c) = a.shot
            /\ Count(ep.label_query, c) = a.train_query

\* every label is the place of the class of the item at the same position
LabelsMatchItems ==
    /\ Len(ep.label_support) = Len(ep.data_support)
    /\ Len(ep.label_query) = Len(ep.data_query)
    /\ \A i \in DOMAIN ep.label_support : ep.label_support[i] = ep.data_support[i].cls
    /\ \A i \in DOMAIN ep.label_query : ep.label_query[i] = ep.data_query[i].cls

C13_LossSelectedByType ==
    (ep # Unbound /\ ep.loss_call # Unbound) =>
        ep.loss_call.fn = "edl_" \o ep.args.loss_type \o "_loss"

\* the loss has been called in the epoch that is under way
CalledThisEpoch == ep # Unbound /\ ep.loss_call # Unbound /\ ep.pc # "train"

\* x <= y of two rationals
RatLE(x, y) == ~IsNaN(x) /\ ~IsNaN(y) /\ ~RatGT(x, y)

\* the KL weights of the epochs so far never go down and never exceed 1
WeightsMonotoneCapped ==
    /\ \A i \in DOMAIN ep.kl_weights : RatLE(ep.kl_weights[i], Rat(1, 1))
    /\ \A i \in DOMAIN ep.kl_weights : \A j \in DOMAIN ep.kl_weights :
        i <= j => RatLE(ep.kl_weights[i], ep.kl_weights[j])

\* C14 as stated: over epochs 1..max_epoch the KL weight is
\* min(1, epoch_num / annealing_step) of the trainer's arguments, never goes
\* down, never exceeds 1, is 1 whenever epoch_num >= annealing_step, and has
\* ramped up to 1 by the end of the run
C14_AnnealingRampsToOne ==
    CalledThisEpoch =>
        /\ WeightsMonotoneCapped
        /\ ep.loss_call.epoch_num >= ep.loss_call.annealing_step => ep.loss_call.kl_weight = Rat(1, 1)
        /\ ep.loss_call.epoch_num < ep.loss_call.annealing_step =>
            ep.loss_call.kl_weight = Rat(ep.loss_call.epoch_num, ep.loss_call.annealing_step)
        /\ ep.pc = "done" => ep.kl_weights[Len(ep.kl_weights)] = Rat(1, 1)

\* C14 amended: the trainer passes annealing_step = 5 * max_epoch, so over
\* epochs 1..max_epoch the KL weight is epoch / (5 * max_epoch): it rises
\* linearly from 1 / (5 * max_epoch) to 1/5, never goes down, never exceeds 1
\* and never reaches it, epoch_num staying below annealing_step
C14_AnnealingUpToAFifth ==
    CalledThisEpoch =>
        /\ WeightsMonotoneCapped
        /\ ep.loss_call.epoch_num = ep.epoch
        /\ ep.loss_call.annealing_step = AnnealFactor * ep.args.max_epoch
        /\ ep.loss_call.epoch_num < ep.loss_call.annealing_step
        /\ ep.loss_call.kl_weight = Rat(ep.epoch, AnnealFactor * ep.args.max_epoch)
        /\ Len(ep.kl_weights) = ep.epoch
        /\ \A i \in DOMAIN ep.kl_weights :
            /\ ep.kl_weights[i] = Rat(i, AnnealFactor * ep.args.max_epoch)
            /\ RatLE(ep.kl_weights[i], Rat(1, AnnealFactor))
        /\ ep.pc = "done" => ep.kl_weights[Len(ep.kl_weights)] = Rat(1, AnnealFactor)

C14_Witness ==
    /\ ep # Unbound
    /\ ep.pc = "done"
    /\ ep.args.max_epoch = 2
    /\ ep.kl_weights = <<Rat(1, 10), Rat(1, 5)>>
    /\ ep.loss_call.phase = "val"
    /\ ep.loss_call.kl_weight = Rat(1, 5)

\* C15: in every validation episode the label tensor given to the loss and to
\* the accuracy has one label per query item: its length is way * val_query,
\* the number of items left after the first way * shot of a batch with
\* shot + val_query items per class, whatever train_query and val_query are
C15_ValLabelPerQueryItem ==
    Called("val") =>
        /\ Len(ep.data_query) = ep.args.way * (ep.args.shot + ep.args.val_query) - ep.args.way * ep.args.shot
        /\ Len(ep.loss_call.alpha_q) = Len(ep.data_query)
        /\ Len(ep.loss_call.target) = ep.args.way * ep.args.val_query
        /\ Len(ep.loss_call.target) = Len(ep.loss_call.alpha_q)

\* an accumulator that has been given n values with the sum v
Accumulated(n, v) == [n |-> n, v |-> v]

\* C16: the accumulators of an epoch's training pass and of its validation
\* pass are created at the start of that pass: while a pass runs, each holds
\* exactly the episodes of that pass so far, all of them at its end, and the
\* four values logged for an epoch are the means over that epoch's episodes
\* of the pass, as many as the loader yields
C16_FreshAccumulators ==
    /\ pc \in {"train_forward", "train_step", "train_end"} =>
        /\ train_loss_averager = Accumulated(hist.sums[epoch].tn, hist.sums[epoch].tl)
        /\ train_acc_averager = Accumulated(hist.sums[epoch].tn, hist.sums[epoch].ta)
        /\ hist.sums[epoch].tn = (IF pc = "train_forward" THEN task_id - 1
                                  ELSE IF pc = "train_step" THEN task_id ELSE NumTrain)
    /\ pc \in {"val_forward", "best"} =>
        /\ val_loss_averager = Accumulated(hist.sums[epoch].vn, hist.sums[epoch].vl)
        /\ val_acc_averager = Accumulated(hist.sums[epoch].vn, hist.sums[epoch].va)
        /\ hist.sums[epoch].vn = (IF pc = "val_forward" THEN task_id - 1 ELSE NumVal)
    /\ \A e \in 1..Len(trlog.train_loss) :
        /\ hist.sums[e].tn = NumTrain
        /\ hist.sums[e].vn = NumVal
        /\ trlog.train_loss[e] = Mean(hist.sums[e].tl, NumTrain)
        /\ trlog.train_acc[e] = Mean(hist.sums[e].ta, NumTrain)
        /\ trlog.val_loss[e] = Mean(hist.sums[e].vl, NumVal)
        /\ trlog.val_acc[e] = Mean(hist.sums[e].va, NumVal)

\* the second epoch's validation pass is over, after a first epoch and a
\* training pass with other values
C16_Witness ==
    /\ epoch = 2
    /\ pc = "best"
    /\ val_loss_averager = Accumulated(NumVal, hist.sums[2].vl)
    /\ hist.sums[1].vl # hist.sums[2].vl
    /\ hist.sums[2].tl # hist.sums[2].vl
    /\ Len(trlog.val_loss) = 1

====
